---- MODULE Spec2Model ----
(***************************************************************************)
(* Model of decision_scorecard.py ("Lock In"): a nine-step Streamlit       *)
(* wizard.  Every user event triggers one pass of the script over the      *)
(* session state; st.rerun() ends the pass and starts a second one.  An    *)
(* action of this model is one event: the pass it triggers, and the pass   *)
(* that st.rerun() starts, if any.                                         *)
(***************************************************************************)
EXTENDS Integers, Sequences, FiniteSets, TLC

\* ---------------------------------------------------------------------
\* Bounds of the model
\* ---------------------------------------------------------------------
\* The wall clock (time.time()) is counted in tenths of a second from a
\* positive origin.  Last reading tried when the timer is started:
MaxNow == 2

\* Last reading of the wall clock followed while the timer runs (a little
\* over the longest time box, 60 minutes).
MaxClock == 37000

\* Characters of the texts a user types.
SP == " "

\* Texts a user types into a text widget (raw, before trimming).
Texts == { <<>>, <<SP>>, <<"a">>, <<SP, "a">> }

\* The texts tried in the widget w: a second word is tried in the first
\* field of the wizard only, which keeps the state space small.
TextsFor(w) == IF w = "decision" THEN Texts \cup { <<"b">> } ELSE Texts

\* ---------------------------------------------------------------------
\* Text helpers
\* ---------------------------------------------------------------------
RECURSIVE LStrip(_)
\* str.lstrip(): drop leading whitespace
LStrip(t) == IF t = <<>> THEN <<>>
             ELSE IF Head(t) = SP THEN LStrip(Tail(t)) ELSE t

RECURSIVE RStrip(_)
\* str.rstrip(): drop trailing whitespace
RStrip(t) == IF t = <<>> THEN <<>>
             ELSE IF t[Len(t)] = SP THEN RStrip(SubSeq(t, 1, Len(t) - 1)) ELSE t

\* str.strip(), as used by need, setv and the correction fields
Strip(t) == RStrip(LStrip(t))

\* Option values
None == [t |-> "None"]

\* the values did_it takes once an outcome is recorded: True or False
Done(b) == [t |-> "bool", b |-> b]

\* The answer keys, in the order of the steps that own them
Keys == {"decision", "why_matters", "why_not_yet", "if_dont", "if_do",
         "value_1", "value_2", "value_3"}

\* The key(s) a collecting step owns
StepKeys(k) == CASE k = 0 -> <<"decision">>
                 [] k = 1 -> <<"why_matters">>
                 [] k = 2 -> <<"why_not_yet">>
                 [] k = 3 -> <<"if_dont">>
                 [] k = 4 -> <<"if_do">>
                 [] k = 5 -> <<"value_1", "value_2", "value_3">>
                 [] OTHER -> <<>>

\* answers = {}: a missing key reads as "" through answers.get(key, "")
EmptyAnswers == [k \in Keys |-> <<>>]

\* need(key)
need(answers, key) == Strip(answers[key])

\* setv(key, val)
setv(answers, key, val) == [answers EXCEPT ![key] = Strip(val)]

\* ---------------------------------------------------------------------
\* Collaborator responses (JSON values as json.loads builds them)
\* ---------------------------------------------------------------------
JNull == [t |-> "null"]
JStr(s) == [t |-> "str", s |-> s]
JInt(n) == [t |-> "int", n |-> n]
\* a float with one decimal, held in tenths: JFloat(155) is 15.5
JFloat(x) == [t |-> "float", tenths |-> x]
JBool(b) == [t |-> "bool", b |-> b]
JList(xs) == [t |-> "list", xs |-> xs]
\* a dict: a function from the keys present to their values
JObj(f) == [t |-> "obj", f |-> f]
EmptyDict == JObj(<<>>)

\* Python truthiness of a parsed value
JTruthy(v) == CASE v.t = "null" -> FALSE
                [] v.t = "bool" -> v.b
                [] v.t = "int" -> v.n # 0
                [] v.t = "float" -> v.tenths # 0
                [] v.t = "str" -> v.s # <<>>
                [] v.t = "list" -> v.xs # <<>>
                [] v.t = "obj" -> DOMAIN v.f # {}

\* dict.get(key, default)
JGet(o, key, default) == IF key \in DOMAIN o.f THEN o.f[key] ELSE default

\* safe_json_loads: json.loads raises on text that is not JSON; a transport
\* failure of the API call raises before it
safe_json_loads(resp) == IF resp.t = "json" THEN [ok |-> TRUE, v |-> resp.v]
                         ELSE [ok |-> FALSE, v |-> JNull]

\* strip_tags((s or "")) and (x or "").strip() need a str, or a falsy value
TextOk(v) == (~JTruthy(v)) \/ v.t = "str"

\* verdict_box(m): m.get needs a dict, safe_text needs texts
VerdictBoxOk(m) == /\ m.t = "obj"
                   /\ \A k \in {"want", "act", "dont", "blocker"} :
                         TextOk(JGet(m, k, JStr(<<>>)))

Digits == <<"0", "1", "2", "3", "4", "5", "6", "7", "8", "9">>
IsDigit(c) == \E i \in 1..10 : Digits[i] = c
DigitVal(c) == (CHOOSE i \in 1..10 : Digits[i] = c) - 1

RECURSIVE ParseDigits(_, _)
\* value of a digit string, most significant digit first
ParseDigits(s, acc) == IF s = <<>> THEN acc
                       ELSE ParseDigits(Tail(s), acc * 10 + DigitVal(Head(s)))

\* int(x) of Python, for the values json.loads can build:
\* [ok |-> FALSE] stands for ValueError / TypeError
PyInt(v) ==
  CASE v.t = "int" -> [ok |-> TRUE, n |-> v.n]
    [] v.t = "bool" -> [ok |-> TRUE, n |-> IF v.b THEN 1 ELSE 0]
    [] v.t = "float" -> [ok |-> TRUE,
                         n |-> IF v.tenths >= 0 THEN v.tenths \div 10
                               ELSE -((-v.tenths) \div 10)]
    [] v.t = "str" ->
         LET s == Strip(v.s)
         IN IF s # <<>> /\ \A i \in 1..Len(s) : IsDigit(s[i])
            THEN [ok |-> TRUE, n |-> ParseDigits(s, 0)]
            ELSE [ok |-> FALSE, n |-> 0]
    [] OTHER -> [ok |-> FALSE, n |-> 0]

\* the time boxes the prompt allows
AllowedMinutes == {10, 15, 20, 30, 45, 60}

\* minutes = int(a.get("minutes", 10) or 10);
\* minutes = minutes if minutes in [10, 15, 20, 30, 45, 60] else 10
Minutes(a) ==
  LET raw == JGet(a, "minutes", JInt(10))
      x == IF JTruthy(raw) THEN raw ELSE JInt(10)
      i == PyInt(x)
  IN IF i.ok THEN [ok |-> TRUE, n |-> IF i.n \in AllowedMinutes THEN i.n ELSE 10]
     ELSE i

\* steps = a.get("steps", []) or []; [strip_tags(x) for x in steps if (x or "").strip()]
StepsOk(a) ==
  LET raw == JGet(a, "steps", JList(<<>>))
  IN \/ ~JTruthy(raw)
     \/ raw.t = "str"
     \/ /\ raw.t = "list"
        /\ \A i \in 1..Len(raw.xs) : TextOk(raw.xs[i])

\* the field extraction at the top of step 7 runs to its end
ExtractOk(a) ==
  /\ a.t = "obj"
  /\ \A k \in {"headline", "action", "start", "why_this"} :
        TextOk(JGet(a, k, JStr(<<>>)))
  /\ Minutes(a).ok
  /\ StepsOk(a)

\* What a collaborator call can come back with: a transport failure, a
\* text that is not JSON, or a JSON value of any shape.
Txt == <<"x">>
GoodMirror == JObj([want |-> JStr(Txt), act |-> JStr(Txt),
                    dont |-> JStr(Txt), blocker |-> JStr(Txt)])
GoodAction(m) == JObj([headline |-> JStr(Txt), action |-> JStr(Txt),
                       start |-> JStr(Txt), minutes |-> m,
                       why_this |-> JStr(Txt), fits_10 |-> JBool(FALSE),
                       steps |-> JList(<<JStr(Txt)>>)])
AsResponses(vs) == { [t |-> "error"], [t |-> "text"] }
                   \cup { [t |-> "json", v |-> v] : v \in vs }
\* the responses tried for ai_mirror
MirrorResponses ==
  AsResponses({ JNull, JList(<<>>), JList(<<JInt(1)>>),
                JObj([want |-> JStr(Txt)]), JObj([want |-> JInt(5)]),
                GoodMirror })
\* the responses tried for ai_one_thing
ActionResponses ==
  AsResponses({ JNull, JList(<<JInt(1)>>), JObj([action |-> JStr(Txt)]),
                GoodAction(JInt(15)), GoodAction(JStr(<<"a">>)) })
NoResponse == [t |-> "unused"]

\* ---------------------------------------------------------------------
\* Session state
\* ---------------------------------------------------------------------
\* A pass works on a record of the session fields, with rerun (st.rerun()
\* was called) and ran (the branch of the pressed button was reached).
VARIABLES
  step,                     \* st.session_state.step
  answers,                  \* st.session_state.answers
  mirror,                   \* st.session_state.mirror
  correction,               \* st.session_state.correction
  show_correction,          \* st.session_state._show_correction
  action_one,               \* st.session_state.action_one
  action_correction,        \* st.session_state.action_correction
  show_action_correction,   \* st.session_state._show_action_correction
  action_agreed,            \* st.session_state.action_agreed
  lockin_started,           \* st.session_state.lockin_started
  timer_started_at,         \* st.session_state.timer_started_at
  did_it,                   \* st.session_state.did_it
  widgets,                  \* the text widgets the last pass drew
  buttons,                  \* the buttons the last pass drew
  err,                      \* what the last pass surfaced
  calls,                    \* the collaborator calls of the last event
  last,                     \* the last event; ran: the pass reached the
                            \* branch of the button pressed
  countdown                 \* the countdown the last pass drew, with the
                            \* clock reading it was computed from (followed
                            \* in SpecTimer only)

vars == <<step, answers, mirror, correction, show_correction, action_one,
          action_correction, show_action_correction, action_agreed,
          lockin_started, timer_started_at, did_it, widgets, buttons, err,
          calls, last, countdown>>

\* the text widgets of the script, by the field they edit
WidgetNames == Keys \cup {"correction", "action_correction"}
NoWidgets == [w \in WidgetNames |-> None]
Widget(dflt, cur) == [t |-> "widget", dflt |-> dflt, cur |-> cur]

\* the session state as one value, as a pass reads and writes it
Cur == [step |-> step, answers |-> answers, mirror |-> mirror,
        correction |-> correction, show_correction |-> show_correction,
        action_one |-> action_one, action_correction |-> action_correction,
        show_action_correction |-> show_action_correction,
        action_agreed |-> action_agreed, lockin_started |-> lockin_started,
        timer_started_at |-> timer_started_at, did_it |-> did_it,
        widgets |-> widgets, buttons |-> buttons, err |-> err,
        calls |-> <<>>, rerun |-> FALSE, ran |-> FALSE]

\* A plausible slip: the reset forgets the verdict and the action.
reset_all_keeps(s) ==
  [s EXCEPT !.step = 0, !.answers = EmptyAnswers,
            !.correction = <<>>, !.show_correction = FALSE,
            !.action_correction = <<>>,
            !.show_action_correction = FALSE, !.action_agreed = FALSE,
            !.lockin_started = FALSE, !.timer_started_at = None,
            !.did_it = None]

\* reset_all()
reset_all(s) ==
  [s EXCEPT !.step = 0, !.answers = EmptyAnswers,
            !.mirror = None, !.correction = <<>>, !.show_correction = FALSE,
            !.action_one = None, !.action_correction = <<>>,
            !.show_action_correction = FALSE, !.action_agreed = FALSE,
            !.lockin_started = FALSE, !.timer_started_at = None,
            !.did_it = None]

\* go(step): set the cursor and st.rerun()
go(s, k) == [s EXCEPT !.step = k, !.rerun = TRUE, !.ran = TRUE]

\* st.rerun() alone
rerun(s) == [s EXCEPT !.rerun = TRUE, !.ran = TRUE]

\* an uncaught exception ends the pass; Streamlit shows it
Raise(s) == [s EXCEPT !.err = "exception"]

\* st.error(...) of a validation branch
Invalid(s) == [s EXCEPT !.err = "validation", !.ran = TRUE]

\* What a text widget returns.  A widget without a key is identified by its
\* arguments, its value argument among them: drawn again with the same value
\* argument it returns the text it holds (the user's, when the event is an
\* edit of it); drawn with another value argument it is a new widget and
\* returns that argument.
TextWidget(old, name, v, ev) ==
  IF old[name] # None /\ old[name].dflt = v
  THEN IF ev.w = name THEN ev.text ELSE old[name].cur
  ELSE v

\* ---------------------------------------------------------------------
\* The script, step by step.  s is the session state the pass works on, old
\* the text widgets of the pass before, ev the event: the button pressed
\* (btn), or the widget edited (w) and the text typed (text).
\* ---------------------------------------------------------------------
NoEvent == [btn |-> "none", w |-> "none", text |-> <<>>]

\* A plausible slip: Next without the emptiness test.
NextUnchecked(s, ok, k) == go(s, k + 1)

\* if not need(key): st.error(...) else: go(k + 1)
NextChecked(s, ok, k) == IF ok THEN go(s, k + 1) ELSE Invalid(s)

\* A plausible slip: Back discards the answer of the step it leaves.
StepBack_discards(s, k) ==
  go([s EXCEPT !.answers = [key \in Keys |->
                              IF \E i \in 1..Len(StepKeys(k)) : StepKeys(k)[i] = key
                              THEN <<>> ELSE @[key]]], k - 1)

\* Back of a collecting step: go(k - 1)
StepBack(s, k) == go(s, k - 1)

\* Steps 1..5 of the script (cursor 0..4): one text field, Back (not at
\* cursor 0) and Next
StepText(s, old, ev) ==
  LET k == s.step
      key == StepKeys(k)[1]
      v == need(s.answers, key)
      val == TextWidget(old, key, v, ev)
      s1 == [s EXCEPT !.answers = setv(@, key, val),
                      !.widgets[key] = Widget(v, val),
                      !.buttons = @ \cup (IF k = 0 THEN {"Next"} ELSE {"Back", "Next"})]
  IN IF k > 0 /\ ev.btn = "Back" THEN StepBack(s1, k)
     ELSE IF ev.btn = "Next" THEN NextChecked(s1, need(s1.answers, key) # <<>>, k)
     ELSE s1

\* the assignments of Next at the values step, before go(6)
Step5Clear(s) ==
  [s EXCEPT !.mirror = None, !.action_one = None, !.timer_started_at = None,
            !.did_it = None, !.correction = <<>>, !.show_correction = FALSE,
            !.action_correction = <<>>, !.show_action_correction = FALSE,
            !.action_agreed = FALSE, !.lockin_started = FALSE]

\* Step 6 of the script (cursor 5): the three values
Step5(s, old, ev) ==
  LET d1 == need(s.answers, "value_1")
      v1 == TextWidget(old, "value_1", d1, ev)
      a1 == setv(s.answers, "value_1", v1)
      d2 == need(a1, "value_2")
      v2 == TextWidget(old, "value_2", d2, ev)
      a2 == setv(a1, "value_2", v2)
      d3 == need(a2, "value_3")
      v3 == TextWidget(old, "value_3", d3, ev)
      a3 == setv(a2, "value_3", v3)
      s1 == [s EXCEPT !.answers = a3,
                      !.widgets["value_1"] = Widget(d1, v1),
                      !.widgets["value_2"] = Widget(d2, v2),
                      !.widgets["value_3"] = Widget(d3, v3),
                      !.buttons = @ \cup {"Back", "Next"}]
      filled == Strip(v1) # <<>> /\ Strip(v2) # <<>> /\ Strip(v3) # <<>>
  IN IF ev.btn = "Back" THEN StepBack(s1, 5)
     ELSE IF ev.btn = "Next"
          THEN IF filled THEN go(Step5Clear(s1), 6) ELSE Invalid(s1)
     ELSE s1

\* Python truthiness of a stored mirror or action (None, or a parsed value)
Truthy(x) == x # None /\ JTruthy(x.val)

\* (correction or "").strip() or None
CorrArg(c) == IF Strip(c) = <<>> THEN None ELSE [t |-> "corr", s |-> Strip(c)]

\* what a parsed response is stored as: JSON null is Python's None; any
\* other value is stored as it is.  from_answers, from_mirror and
\* from_correction record the arguments of the call that produced it.
Stored(v, a, m, c) ==
  IF v = JNull THEN None
  ELSE [t |-> "value", val |-> v, from_answers |-> a, from_mirror |-> m,
        from_correction |-> c]

\* ai_mirror(st.session_state.answers, correction): the call, and the value
\* it returns unless it raises
ai_mirror(s, corr, resp) ==
  LET p == safe_json_loads(resp)
  IN [ok |-> p.ok,
      val |-> Stored(p.v, s.answers, None, CorrArg(corr)),
      call |-> [fn |-> "ai_mirror", answers |-> s.answers, mirror |-> None,
                correction |-> CorrArg(corr), resp |-> resp]]

\* st.session_state.mirror or {}: val is the value passed, src the stored
\* mirror it was taken from
MirrorArg(s) == [val |-> IF Truthy(s.mirror) THEN s.mirror.val ELSE EmptyDict,
                 src |-> s.mirror]

\* ai_one_thing(st.session_state.answers, st.session_state.mirror or {},
\* correction)
ai_one_thing(s, corr, resp) ==
  LET p == safe_json_loads(resp)
  IN [ok |-> p.ok,
      val |-> Stored(p.v, s.answers, MirrorArg(s), CorrArg(corr)),
      call |-> [fn |-> "ai_one_thing", answers |-> s.answers,
                mirror |-> MirrorArg(s), correction |-> CorrArg(corr),
                resp |-> resp]]

\* A plausible slip: Back of the verdict step keeps the verdict.
Step6Back_keeps(s) == go(s, 5)

\* Back of the verdict step: mirror = None; go(5)
Step6Back(s) == go([s EXCEPT !.mirror = None], 5)

\* A plausible slip: confirming the verdict goes straight to the outcome.
Step6Yes_skips(s) ==
  go([s EXCEPT !.action_one = None, !.action_correction = <<>>,
               !.show_action_correction = FALSE, !.action_agreed = FALSE,
               !.lockin_started = FALSE, !.timer_started_at = None,
               !.did_it = None], 8)

\* "Yes, you got that right": reset the state of the next step; go(7)
Step6Yes(s) ==
  go([s EXCEPT !.action_one = None, !.action_correction = <<>>,
               !.show_action_correction = FALSE, !.action_agreed = FALSE,
               !.lockin_started = FALSE, !.timer_started_at = None,
               !.did_it = None], 7)

\* A plausible slip: the redo folds the correction into the answers.
Redo_amends(s, r) ==
  IF r.ok THEN rerun([s EXCEPT !.mirror = r.val, !.show_correction = FALSE,
                               !.answers["decision"] = s.correction,
                               !.calls = Append(@, r.call)])
  ELSE Raise([s EXCEPT !.calls = Append(@, r.call), !.ran = TRUE])

\* "Redo verdict" with a correction: mirror = ai_mirror(answers, correction);
\* _show_correction = False; st.rerun()
Redo(s, r) ==
  IF r.ok THEN rerun([s EXCEPT !.mirror = r.val, !.show_correction = FALSE,
                               !.calls = Append(@, r.call)])
  ELSE Raise([s EXCEPT !.calls = Append(@, r.call), !.ran = TRUE])

\* the correction panel of the verdict step
Step6Panel(s, old, ev, rB) ==
  LET corr == TextWidget(old, "correction", s.correction, ev)
      s1 == [s EXCEPT !.correction = Strip(corr),
                      !.widgets["correction"] = Widget(s.correction, corr),
                      !.buttons = @ \cup {"Cancel", "Redo verdict"}]
  IN IF ev.btn = "Cancel" THEN rerun([s1 EXCEPT !.show_correction = FALSE])
     ELSE IF ev.btn = "Redo verdict"
          THEN IF s1.correction = <<>> THEN Invalid(s1)
               ELSE Redo(s1, ai_mirror(s1, s1.correction, rB))
     ELSE s1

\* Step 7 of the script (cursor 6): verdict, confirm or correct
Step6(s, old, ev, rA, rB) ==
  LET r == ai_mirror(s, <<>>, rA)
      called == s.mirror = None
      s1 == IF called
            THEN [s EXCEPT !.calls = Append(@, r.call),
                           !.mirror = IF r.ok THEN r.val ELSE @]
            ELSE s
      m == IF Truthy(s1.mirror) THEN s1.mirror.val ELSE EmptyDict
      s2 == [s1 EXCEPT !.buttons = @ \cup {"Back", "Yes, you got that right",
                                            "No, not exactly"}]
  IN IF called /\ ~r.ok THEN Raise(s1)
     ELSE IF ~VerdictBoxOk(m) THEN Raise(s1)
     ELSE IF ev.btn = "Back" THEN Step6Back(s2)
     ELSE IF ev.btn = "Yes, you got that right" THEN Step6Yes(s2)
     ELSE IF ev.btn = "No, not exactly"
          THEN rerun([s2 EXCEPT !.show_correction = TRUE])
     ELSE IF s2.show_correction THEN Step6Panel(s2, old, ev, rB)
     ELSE s2

\* A plausible slip: Back of the action step keeps the proposed action.
Step7Back_keeps(s) == go(s, 6)

\* Back of the action step, before agreement
Step7Back(s) ==
  go([s EXCEPT !.action_one = None, !.action_correction = <<>>,
               !.show_action_correction = FALSE], 6)

\* "Adjust the step" with a correction
Adjust(s, r) ==
  IF r.ok THEN rerun([s EXCEPT !.action_one = r.val,
                               !.show_action_correction = FALSE,
                               !.calls = Append(@, r.call)])
  ELSE Raise([s EXCEPT !.calls = Append(@, r.call), !.ran = TRUE])

\* the correction panel of the action step
Step7Panel(s, old, ev, rB) ==
  LET corr == TextWidget(old, "action_correction", s.action_correction, ev)
      s1 == [s EXCEPT !.action_correction = Strip(corr),
                      !.widgets["action_correction"] =
                          Widget(s.action_correction, corr),
                      !.buttons = @ \cup {"Cancel", "Adjust the step"}]
  IN IF ev.btn = "Cancel" THEN rerun([s1 EXCEPT !.show_action_correction = FALSE])
     ELSE IF ev.btn = "Adjust the step"
          THEN IF s1.action_correction = <<>> THEN Invalid(s1)
               ELSE Adjust(s1, ai_one_thing(s1, s1.action_correction, rB))
     ELSE s1

\* Phase A of the action step: propose, agree or adjust
PhaseA(s, old, ev, rB) ==
  LET s1 == [s EXCEPT !.buttons = @ \cup {"Back", "Yes, I agree", "Not exactly"}]
  IN IF ev.btn = "Back" THEN Step7Back(s1)
     ELSE IF ev.btn = "Yes, I agree"
          THEN rerun([s1 EXCEPT !.action_agreed = TRUE])
     ELSE IF ev.btn = "Not exactly"
          THEN rerun([s1 EXCEPT !.show_action_correction = TRUE])
     ELSE IF s1.show_action_correction THEN Step7Panel(s1, old, ev, rB)
     ELSE s1

\* A plausible slip: Back after agreement leaves the step.
PhaseBBack_leaves(s) == go([s EXCEPT !.action_agreed = FALSE], 6)

\* Back after agreement: action_agreed = False; st.rerun()
PhaseBBack(s) == rerun([s EXCEPT !.action_agreed = FALSE])

\* A plausible slip: "Lock in now" does not start the timer.
PhaseB_no_timer(s, ev, clock) ==
  LET s1 == [s EXCEPT !.buttons = @ \cup {"Back", "Lock in now", "Maybe later"}]
  IN IF ev.btn = "Back" THEN PhaseBBack(s1)
     ELSE IF ev.btn = "Lock in now"
          THEN rerun([s1 EXCEPT !.lockin_started = TRUE])
     ELSE IF ev.btn = "Maybe later"
          THEN go([s1 EXCEPT !.did_it = Done(FALSE)], 8)
     ELSE s1

\* Phase B of the action step: lock in now, or maybe later
PhaseB(s, ev, clock) ==
  LET s1 == [s EXCEPT !.buttons = @ \cup {"Back", "Lock in now", "Maybe later"}]
  IN IF ev.btn = "Back" THEN PhaseBBack(s1)
     ELSE IF ev.btn = "Lock in now"
          THEN rerun([s1 EXCEPT !.lockin_started = TRUE,
                                !.timer_started_at = [t |-> "time", at |-> clock]])
     ELSE IF ev.btn = "Maybe later"
          THEN go([s1 EXCEPT !.did_it = Done(FALSE)], 8)
     ELSE s1

\* A plausible slip: the outcome is recorded but the step is not left.
PhaseC_stays(s, ev) ==
  LET s1 == [s EXCEPT !.buttons = @ \cup {"I did it", "I didn't do it"}]
  IN IF ev.btn = "I did it" THEN rerun([s1 EXCEPT !.did_it = Done(TRUE)])
     ELSE IF ev.btn = "I didn't do it" THEN rerun([s1 EXCEPT !.did_it = Done(FALSE)])
     ELSE s1

\* Phase C of the action step: the timer runs
PhaseC(s, ev) ==
  LET s1 == [s EXCEPT !.buttons = @ \cup {"I did it", "I didn't do it"}]
  IN IF ev.btn = "I did it" THEN go([s1 EXCEPT !.did_it = Done(TRUE)], 8)
     ELSE IF ev.btn = "I didn't do it" THEN go([s1 EXCEPT !.did_it = Done(FALSE)], 8)
     ELSE s1

\* Step 8 of the script (cursor 7): the next best step
Step7(s, old, ev, rA, rB, clock) ==
  LET r == ai_one_thing(s, <<>>, rA)
      called == s.action_one = None
      s1 == IF called
            THEN [s EXCEPT !.calls = Append(@, r.call),
                           !.action_one = IF r.ok THEN r.val ELSE @]
            ELSE s
      a == IF Truthy(s1.action_one) THEN s1.action_one.val ELSE EmptyDict
  IN IF called /\ ~r.ok THEN Raise(s1)
     ELSE IF ~ExtractOk(a) THEN Raise(s1)
     ELSE IF ~s1.action_agreed THEN PhaseA(s1, old, ev, rB)
     ELSE IF ~s1.lockin_started THEN PhaseB(s1, ev, clock)
     ELSE PhaseC(s1, ev)

\* Step 9 of the script (cursor 8): the outcome
Step8(s, ev) ==
  LET a == s.action_one
      s1 == [s EXCEPT !.buttons = @ \cup {"Run another decision"}]
  IN IF Truthy(a) /\ a.val.t # "obj" THEN Raise(s)
     ELSE IF Truthy(a) /\ JTruthy(JGet(a.val, "action", JNull))
             /\ ~TextOk(JGet(a.val, "action", JNull)) THEN Raise(s)
     ELSE IF ev.btn = "Run another decision" THEN go(reset_all(s1), 0)
     ELSE s1

\* One pass of the script: the top Reset button, then the step the cursor
\* names.  rA answers the call a step makes when its derived value is
\* missing, rB the call of a redo.
Pass(s, old, ev, rA, rB, clock) ==
  LET s0 == IF ev.btn = "Reset" THEN [reset_all(s) EXCEPT !.ran = TRUE] ELSE s
      s1 == [s0 EXCEPT !.buttons = {"Reset"}, !.widgets = NoWidgets,
                       !.err = "none", !.rerun = FALSE]
  IN CASE s1.step \in 0..4 -> StepText(s1, old, ev)
       [] s1.step = 5 -> Step5(s1, old, ev)
       [] s1.step = 6 -> Step6(s1, old, ev, rA, rB)
       [] s1.step = 7 -> Step7(s1, old, ev, rA, rB, clock)
       [] s1.step = 8 -> Step8(s1, ev)

\* the responses a pass at this state can get for the call it makes when
\* its derived value is missing
CallResponses(s) ==
  IF s.step = 6 /\ s.mirror = None THEN MirrorResponses
  ELSE IF s.step = 7 /\ s.action_one = None THEN ActionResponses
  ELSE {NoResponse}

\* the responses a redo can get
RedoResponses(ev) ==
  IF ev.btn = "Redo verdict" THEN MirrorResponses
  ELSE IF ev.btn = "Adjust the step" THEN ActionResponses
  ELSE {NoResponse}

\* the readings of time.time() tried at "Lock in now": time.time() is
\* positive
Clock == 1..MaxNow

\* An event: the pass it triggers and, when that pass ends in st.rerun(),
\* the pass that follows (no button is pressed in it)
Event(s, ev, rA, rB, rC, clock) ==
  LET p1 == Pass([s EXCEPT !.calls = <<>>], s.widgets, ev, rA, rB, clock)
  IN IF p1.rerun
     THEN Pass(p1, p1.widgets, NoEvent, rC, NoResponse, clock)
     ELSE p1

\* the session state after the event
Becomes(r, ev) ==
  /\ step' = r.step
  /\ answers' = r.answers
  /\ mirror' = r.mirror
  /\ correction' = r.correction
  /\ show_correction' = r.show_correction
  /\ action_one' = r.action_one
  /\ action_correction' = r.action_correction
  /\ show_action_correction' = r.show_action_correction
  /\ action_agreed' = r.action_agreed
  /\ lockin_started' = r.lockin_started
  /\ timer_started_at' = r.timer_started_at
  /\ did_it' = r.did_it
  /\ widgets' = r.widgets
  /\ buttons' = r.buttons
  /\ err' = r.err
  /\ calls' = r.calls
  /\ last' = [btn |-> ev.btn, w |-> ev.w, text |-> ev.text, ran |-> r.ran]

\* Every outcome of the event ev at the session state s: the collaborator
\* answers each call it is asked, the clock shows some time
Outcomes(s, ev) ==
  LET s0 == IF ev.btn = "Reset" THEN reset_all(s) ELSE s
  IN UNION { UNION { UNION {
       LET p1 == Pass([s EXCEPT !.calls = <<>>], s.widgets, ev, rA, rB, clock)
       IN { Event(s, ev, rA, rB, rC, clock) :
              rC \in (IF p1.rerun THEN CallResponses(p1) ELSE {NoResponse}) }
       : clock \in (IF ev.btn = "Lock in now" THEN Clock ELSE {0}) }
       : rB \in RedoResponses(ev) }
       : rA \in CallResponses(s0) }

\* the event ev happens
Handle(ev) == /\ \E r \in Outcomes(Cur, ev) : Becomes(r, ev)
              /\ UNCHANGED countdown

\* the user presses a button the last pass drew
Press(b) == /\ b \in buttons
            /\ Handle([btn |-> b, w |-> "none", text |-> <<>>])

\* ---------------------------------------------------------------------
\* Initial state: the first pass of a new session (state init, then the
\* first step is drawn)
\* ---------------------------------------------------------------------
Init ==
  /\ step = 0
  /\ answers = EmptyAnswers
  /\ mirror = None
  /\ correction = <<>>
  /\ show_correction = FALSE
  /\ action_one = None
  /\ action_correction = <<>>
  /\ show_action_correction = FALSE
  /\ action_agreed = FALSE
  /\ lockin_started = FALSE
  /\ timer_started_at = None
  /\ did_it = None
  /\ widgets = [NoWidgets EXCEPT !["decision"] = Widget(<<>>, <<>>)]
  /\ buttons = {"Reset", "Next"}
  /\ err = "none"
  /\ calls = <<>>
  /\ last = [btn |-> "none", w |-> "none", text |-> <<>>, ran |-> FALSE]
  /\ countdown = None

\* ---------------------------------------------------------------------
\* Events
\* ---------------------------------------------------------------------
\* the user changes the text of a widget the last pass drew
EditText == \E w \in WidgetNames : \E txt \in TextsFor(w) :
              /\ widgets[w] # None
              /\ widgets[w].cur # txt
              /\ Handle([btn |-> "none", w |-> w, text |-> txt])

\* the script runs again with no input (the Rerun command of the app menu,
\* st_autorefresh while the timer runs)
Rerun == Handle(NoEvent)

PressReset == Press("Reset")
PressNext == Press("Next")
PressBack == Press("Back")
PressYes == Press("Yes, you got that right")
PressNo == Press("No, not exactly")
PressCancel == Press("Cancel")
PressRedo == Press("Redo verdict")
PressAgree == Press("Yes, I agree")
PressNotExactly == Press("Not exactly")
PressAdjust == Press("Adjust the step")
PressLockIn == Press("Lock in now")
PressMaybeLater == Press("Maybe later")
PressDidIt == Press("I did it")
PressDidNot == Press("I didn't do it")
PressRunAnother == Press("Run another decision")

Next == \/ EditText
        \/ Rerun
        \/ PressReset
        \/ PressNext
        \/ PressBack
        \/ PressYes
        \/ PressNo
        \/ PressCancel
        \/ PressRedo
        \/ PressAgree
        \/ PressNotExactly
        \/ PressAdjust
        \/ PressLockIn
        \/ PressMaybeLater
        \/ PressDidIt
        \/ PressDidNot
        \/ PressRunAnother

Spec == Init /\ [][Next]_vars

\* ---------------------------------------------------------------------
\* The countdown of the lock-in phase.  SpecTimer starts where "Lock in
\* now" has just been pressed on a well-formed action and follows the
\* renders of the running timer as the wall clock moves.
\* ---------------------------------------------------------------------
\* the steps the wall clock makes between two renders, in tenths of a
\* second: half a second, a second, a minute, ten minutes, and half a
\* second backwards (time.time() is not monotonic)
Jumps == {-5, 5, 10, 600, 6000}

\* the clock readings at which the timer is started in SpecTimer: late
\* enough for the clock to be set back to before the start
TimerStarts == {11, 12}

\* the minutes fields of the actions the timer is followed for
TimerMinutes == {JInt(7), JInt(10), JInt(15), JInt(60)}

\* A plausible slip: the remaining time is not clamped at zero.
Countdown_unclamped(minutes, started, t) ==
  LET total == minutes * 60
      start == IF started # None /\ started.at # 0 THEN started.at ELSE t
      elapsed == PyInt(JFloat(t - start)).n
      remaining == total - elapsed
  IN [t |-> "countdown", at |-> t, remaining |-> remaining,
      mins |-> remaining \div 60, secs |-> remaining % 60]

\* total = minutes * 60
\* elapsed = int(time.time() - (timer_started_at or time.time()))
\* remaining = max(0, total - elapsed); mins = remaining // 60;
\* secs = remaining % 60.  t is the reading of time.time().
Countdown(minutes, started, t) ==
  LET total == minutes * 60
      start == IF started # None /\ started.at # 0 THEN started.at ELSE t
      elapsed == PyInt(JFloat(t - start)).n
      remaining == IF total - elapsed > 0 THEN total - elapsed ELSE 0
  IN [t |-> "countdown", at |-> t, remaining |-> remaining,
      mins |-> remaining \div 60, secs |-> remaining % 60]

\* what the lock-in phase of a pass draws of the timer at the clock
\* reading t: nothing when the pass is not in that phase or has raised
DrawTimer(s, t) ==
  IF s.step = 7 /\ s.action_agreed /\ s.lockin_started /\ s.err = "none"
  THEN LET a == IF Truthy(s.action_one) THEN s.action_one.val ELSE EmptyDict
       IN Countdown(Minutes(a).n, s.timer_started_at, t)
  ELSE None

\* the session right after "Lock in now", pressed at the clock reading t0
\* on an action whose minutes field is m
LockedIn(m, t0) ==
  LET base == [step |-> 7, answers |-> [k \in Keys |-> <<"a">>],
               mirror |-> None, correction |-> <<>>,
               show_correction |-> FALSE, action_one |-> None,
               action_correction |-> <<>>, show_action_correction |-> FALSE,
               action_agreed |-> TRUE, lockin_started |-> TRUE,
               timer_started_at |-> [t |-> "time", at |-> t0],
               did_it |-> None, widgets |-> NoWidgets,
               buttons |-> {"Reset", "I did it", "I didn't do it"},
               err |-> "none", calls |-> <<>>, rerun |-> FALSE, ran |-> TRUE]
      s1 == [base EXCEPT !.mirror =
               ai_mirror(base, <<>>, [t |-> "json", v |-> GoodMirror]).val]
  IN [s1 EXCEPT !.action_one =
        ai_one_thing(s1, <<>>, [t |-> "json", v |-> GoodAction(m)]).val]

TimerInit ==
  \E m \in TimerMinutes : \E t0 \in TimerStarts :
    LET s == LockedIn(m, t0)
    IN /\ step = s.step
       /\ answers = s.answers
       /\ mirror = s.mirror
       /\ correction = s.correction
       /\ show_correction = s.show_correction
       /\ action_one = s.action_one
       /\ action_correction = s.action_correction
       /\ show_action_correction = s.show_action_correction
       /\ action_agreed = s.action_agreed
       /\ lockin_started = s.lockin_started
       /\ timer_started_at = s.timer_started_at
       /\ did_it = s.did_it
       /\ widgets = s.widgets
       /\ buttons = s.buttons
       /\ err = s.err
       /\ calls = s.calls
       /\ last = [btn |-> "Lock in now", w |-> "none", text |-> <<>>,
                  ran |-> TRUE]
       /\ countdown = DrawTimer(s, t0)

\* st_autorefresh: the script runs again with no input, at a later (or,
\* the clock set back, an earlier) reading of the clock
TimerRefresh ==
  /\ countdown # None
  /\ \E d \in Jumps :
        LET t == countdown.at + d
        IN /\ t \in 1..MaxClock
           /\ \E r \in Outcomes(Cur, NoEvent) :
                 /\ Becomes(r, NoEvent)
                 /\ countdown' = DrawTimer(r, t)

TimerNext == TimerRefresh

SpecTimer == TimerInit /\ [][TimerNext]_vars

\* =====================================================================
\* Properties
\* =====================================================================
\* the last event was the button b, and its branch of the script ran
Pressed(b) == last.btn = b /\ last.ran

\* the session fields other than the cursor and the answers
Derived == <<mirror, correction, show_correction, action_one,
             action_correction, show_action_correction, action_agreed,
             lockin_started, timer_started_at, did_it>>

\* the required answer(s) of the collecting step k are non-empty after
\* trimming
Filled(k) == \A i \in 1..Len(StepKeys(k)) : Strip(answers[StepKeys(k)[i]]) # <<>>

\* C1: a stored mirror was computed from the answer bag as it is now.
C1_MirrorFresh == mirror # None => mirror.from_answers = answers

\* C1 witness: a verdict redone with a correction, over answers that were
\* typed with the second word
C1_Witness == /\ mirror # None
              /\ mirror.from_correction # None
              /\ mirror.from_answers = answers
              /\ answers["decision"] = <<"b">>

\* C2: Next at a collecting step stays in place and keeps every answer and
\* all derived state when the required answer is empty after trimming, and
\* moves the cursor forward by one when it is not.
C2_NextValidates ==
  [][ (Pressed("Next")' /\ step \in 0..5) =>
        IF Filled(step)
        THEN step' = step + 1
        ELSE /\ step' = step
             /\ answers' = answers
             /\ Derived' = Derived
             /\ err' = "validation" ]_vars

\* C2 witness: Next was refused at the values step, the values typed so far
\* are still stored
C2_Witness == /\ Pressed("Next")
              /\ err = "validation"
              /\ step = 5
              /\ answers["value_1"] # <<>>
              /\ answers["value_3"] = <<>>

\* C3 as stated: every Back moves the cursor back by exactly one.
C3_Original ==
  [][ Pressed("Back")' => (step' = step - 1 /\ step' >= 0) ]_vars

\* C3 amended: Back is drawn at cursor 1..7 before lock-in only; it moves the
\* cursor back by exactly one, except after agreement at cursor 7, where it
\* withdraws the agreement and leaves the cursor at 7.
C3_Back ==
  [][ /\ "Back" \in buttons => (step \in 1..7 /\ ~lockin_started)
      /\ Pressed("Back")' =>
           IF step = 7 /\ action_agreed
           THEN step' = 7 /\ ~action_agreed'
           ELSE step' = step - 1 /\ step' >= 0 ]_vars

\* C3 witness: Back was pressed after agreement; the cursor is still 7
C3_Witness == /\ Pressed("Back")
              /\ step = 7
              /\ ~action_agreed
              /\ action_one # None

\* the state of a new session
SessionStart ==
  /\ step = 0
  /\ answers = EmptyAnswers
  /\ mirror = None
  /\ action_one = None
  /\ correction = <<>>
  /\ action_correction = <<>>
  /\ ~show_correction
  /\ ~show_action_correction
  /\ ~action_agreed
  /\ ~lockin_started
  /\ timer_started_at = None
  /\ did_it = None

\* C4: a reset (the top Reset button, or "Run another decision") leaves the
\* session in the state of a new session.
C4_Original ==
  [][ (Pressed("Reset")' \/ Pressed("Run another decision")') => SessionStart' ]_vars

\* the correction argument of a redo made with the stored correction c
WithCorrection(x, c) == x # None /\ x.from_correction = CorrArg(c)

\* C5: a redo with a non-empty correction leaves the answers, the cursor and
\* the other artifact as they are, and its own artifact is afterwards the
\* value computed from the current answers (for the action: and the current
\* mirror) with that correction, unless the call failed visibly and left it
\* as it was.
C5_Original ==
  [][ /\ (Pressed("Redo verdict")' /\ correction' # <<>>) =>
           /\ answers' = answers /\ step' = step /\ action_one' = action_one
           /\ \/ err' = "exception" /\ mirror' = mirror
              \/ WithCorrection(mirror', correction') /\ mirror'.from_answers = answers
      /\ (Pressed("Adjust the step")' /\ action_correction' # <<>>) =>
           /\ answers' = answers /\ step' = step /\ mirror' = mirror
           /\ \/ err' = "exception" /\ action_one' = action_one
              \/ /\ WithCorrection(action_one', action_correction')
                 /\ action_one'.from_answers = answers
                 /\ action_one'.from_mirror.src = mirror ]_vars

\* a parsed response is an object with the keys the prompt asks for
HasKeys(v, ks) == v.t = "obj" /\ ks \subseteq DOMAIN v.f
MirrorKeys == {"want", "act", "dont", "blocker"}
ActionKeys == {"headline", "action", "start", "minutes", "why_this", "fits_10", "steps"}
WellFormed(c) ==
  /\ c.resp.t = "json"
  /\ HasKeys(c.resp.v, IF c.fn = "ai_mirror" THEN MirrorKeys ELSE ActionKeys)

\* C6: a malformed collaborator response fails visibly, is not kept as the
\* derived artifact and leaves the wizard on the step of the call with the
\* answers it was called with.
C6_Original ==
  /\ \A i \in 1..Len(calls) :
        ~WellFormed(calls[i]) =>
           /\ err = "exception"
           /\ step = (IF calls[i].fn = "ai_mirror" THEN 6 ELSE 7)
           /\ answers = calls[i].answers
  /\ mirror # None => HasKeys(mirror.val, MirrorKeys)
  /\ action_one # None => HasKeys(action_one.val, ActionKeys)

\* the forward control of the step at cursor k
Forward(k) == IF k = 6 THEN "Yes, you got that right" ELSE "Next"

\* after a Back from cursor k with answer bag a, pressing the forward
\* control of the step arrived at, with no edit in between, leads to cursor
\* k with answer bag a, whatever the collaborator answers
RoundTrip(k, a) ==
  /\ step' = k - 1
  /\ answers' = a
  /\ err' = "none" => Forward(step') \in buttons'
  /\ \A r \in Outcomes(Cur', [btn |-> Forward(step'), w |-> "none", text |-> <<>>]) :
        r.ran => (r.step = k /\ r.answers = a)

\* C7 as stated: Back, then the forward control of the step before, returns
\* to the same cursor with the same answers, wherever Back is offered.
C7_Original == [][ Pressed("Back")' => RoundTrip(step, answers) ]_vars

\* C7 amended: the same, wherever Back is offered except after agreement at
\* cursor 7, where Back stays at cursor 7.
C7_RoundTrip ==
  [][ (Pressed("Back")' /\ ~(step = 7 /\ action_agreed)) =>
        RoundTrip(step, answers) ]_vars

\* C7 witness: Back was pressed at the action step; the verdict step is
\* drawn with its forward control
C7_Witness == /\ Pressed("Back")
              /\ step = 6
              /\ Forward(6) \in buttons
              /\ answers["decision"] = <<"b">>

\* C8: the Reset button is drawn by every pass, and a reset leads to the
\* state of a new session.
C8_Original ==
  /\ []("Reset" \in buttons)
  /\ [][ Pressed("Reset")' => SessionStart' ]_vars

\* C9: whatever the minutes field of a stored action holds, drawing step 7
\* raises no error for it and uses a time box from the allowed list: the
\* supplied value when that is in the list, 10 otherwise.
C9_Original ==
  (step = 7 /\ action_one # None /\ action_one.val.t = "obj") =>
     LET a == action_one.val
         given == JGet(a, "minutes", JNull)
     IN /\ Minutes(a).ok
        /\ Minutes(a).n \in AllowedMinutes
        /\ Minutes(a).n = (IF given.t = "int" /\ given.n \in AllowedMinutes
                           THEN given.n ELSE 10)

\* C10: a stored action was computed from the answer bag as it is now and
\* from the mirror as it is stored now (passed as "mirror or {}").
C10_ActionFresh ==
  action_one # None =>
     /\ action_one.from_answers = answers
     /\ action_one.from_mirror.src = mirror
     /\ action_one.from_mirror.val =
          (IF Truthy(mirror) THEN mirror.val ELSE EmptyDict)

\* C10 witness: an action is stored that was computed from a redone verdict
C10_Witness == /\ action_one # None
               /\ mirror # None
               /\ mirror.from_correction # None
               /\ action_one.from_mirror.src = mirror

\* one of the two reset controls was pressed: the top Reset button, or
\* "Run another decision" of the outcome step
ResetPressed == Pressed("Reset") \/ Pressed("Run another decision")

\* C11: the cursor is always one of 0..8; an event moves it by -1, 0 or +1,
\* or resets it to 0 together with a full reset.  Step 6 is entered only
\* from step 5 by a validated Next or from step 7 by Back, step 7 only from
\* step 6 by "Yes, you got that right", step 8 only from step 7; step 8 is
\* left only by a reset, and the only buttons it offers are the two resets.
C11_CursorDiscipline ==
  /\ [](step \in 0..8)
  /\ [](step = 8 => buttons \subseteq {"Reset", "Run another decision"})
  /\ [][ /\ \/ step' - step \in {-1, 0, 1}
            \/ ResetPressed' /\ SessionStart'
         /\ (step' = 6 /\ step # 6) =>
               \/ step = 5 /\ Pressed("Next")' /\ Filled(5)'
               \/ step = 7 /\ Pressed("Back")'
         /\ (step' = 7 /\ step # 7) =>
               step = 6 /\ Pressed("Yes, you got that right")'
         /\ (step' = 8 /\ step # 8) => step = 7
         /\ (step = 8 /\ step' # 8) => ResetPressed' /\ step' = 0
       ]_vars

\* C11 witness: the outcome step was reached by "I did it"
C11_Witness == step = 8 /\ Pressed("I did it")

\* C12: at cursor k the required answers of every earlier step are
\* non-empty after trimming, and every call of the collaborator made by
\* the last event carried eight non-empty answers.
C12_StepGating ==
  /\ \A k \in 0..5 : step > k => Filled(k)
  /\ \A i \in 1..Len(calls) :
        \A key \in Keys : Strip(calls[i].answers[key]) # <<>>

\* C12 witness: the action step, just entered, has called the collaborator
C12_Witness == /\ step = 7
               /\ Pressed("Yes, you got that right")
               /\ calls # <<>>

\* C13: at cursor 0..5 there is no mirror; at cursor 0..6 there is no
\* action, no agreement, no lock-in, no timer and no outcome.  The Back
\* that leaves step 6 discards the mirror; the Back that leaves step 7
\* discards the action and its correction.
C13_NoDerivedState ==
  /\ [](step <= 5 => mirror = None)
  /\ [](step <= 6 => /\ action_one = None
                     /\ ~action_agreed
                     /\ ~lockin_started
                     /\ timer_started_at = None
                     /\ did_it = None)
  /\ [][ /\ (step = 6 /\ Pressed("Back")') => (step' = 5 /\ mirror' = None)
         /\ (step = 7 /\ step' = 6 /\ Pressed("Back")') =>
               /\ action_one' = None
               /\ action_correction' = <<>>
               /\ ~show_action_correction'
       ]_vars

\* C13 witness: Back has just left the verdict step
C13_Witness == step = 5 /\ Pressed("Back") /\ Filled(5)

\* C14: an outcome is recorded exactly at cursor 8.  The outcome "done" is
\* produced only by "I did it" of a started lock-in, so it comes with
\* lockin_started and a timer; "Maybe later" reaches step 8 with the
\* outcome "not done", no lock-in and no timer.
C14_OutcomeConsistency ==
  /\ [](did_it # None <=> step = 8)
  /\ [](did_it = Done(TRUE) => lockin_started /\ timer_started_at # None)
  /\ [][ /\ (did_it # Done(TRUE) /\ did_it' = Done(TRUE)) =>
               (Pressed("I did it")' /\ lockin_started)
         /\ Pressed("Maybe later")' =>
               /\ step' = 8
               /\ did_it' = Done(FALSE)
               /\ ~lockin_started'
               /\ timer_started_at' = None
       ]_vars

\* C14 witness: the outcome step reached through "Maybe later"
C14_Witness == step = 8 /\ Pressed("Maybe later") /\ did_it = Done(FALSE)

\* C15: lock-in implies agreement, agreement implies cursor 7 or 8, and
\* the timer is set exactly when the lock-in has started.
C15_PhaseNesting ==
  /\ lockin_started => action_agreed
  /\ action_agreed => step \in {7, 8}
  /\ timer_started_at # None <=> lockin_started

\* C15 witness: the timer runs
C15_Witness == /\ step = 7
               /\ lockin_started
               /\ Pressed("Lock in now")
               /\ timer_started_at # None

\* the last event was a render with no input: a periodic refresh of the
\* timer, or a rerun asked from the app menu
Refreshed == last.btn = "none" /\ last.w = "none"

\* C16: once the lock-in has started the wizard stays at step 7 with
\* lockin_started true until "I did it", "I didn't do it" or Reset is
\* pressed; no Back is offered in that phase; a render with no input
\* changes neither the cursor, the answers, the mirror, the action nor any
\* flag.
C16_Original ==
  [][ (step = 7 /\ lockin_started) =>
        /\ "Back" \notin buttons
        /\ \/ step' = 7 /\ lockin_started'
           \/ Pressed("I did it")'
           \/ Pressed("I didn't do it")'
           \/ Pressed("Reset")'
        /\ Refreshed' => /\ step' = step
                         /\ answers' = answers
                         /\ Derived' = Derived
    ]_vars

\* the seconds between the start of the timer and the clock reading of
\* the countdown drawn, in tenths
SinceStart == countdown.at - timer_started_at.at

\* the time box of the stored action, in seconds
TotalSeconds == Minutes(action_one.val).n * 60

\* C17: the remaining time drawn in the lock-in phase is
\* max(0, total - elapsed), with total the time box in seconds and elapsed
\* the whole seconds since the timer was started.  It is never negative,
\* is at most total when the clock is not before the start, is 0 once
\* elapsed reaches total, splits into minutes and a seconds part in 0..59,
\* and does not increase from one render to the next when the clock has
\* not gone backwards.
C17_CountdownBounds ==
  /\ [](countdown # None =>
          /\ TotalSeconds \in { m * 60 : m \in AllowedMinutes }
          /\ SinceStart >= 0 =>
                \E e \in 0..(SinceStart \div 10) :
                   /\ 10 * e <= SinceStart
                   /\ SinceStart < 10 * (e + 1)
                   /\ countdown.remaining =
                        (IF TotalSeconds > e THEN TotalSeconds - e ELSE 0)
          /\ countdown.remaining >= 0
          /\ SinceStart >= 0 => countdown.remaining <= TotalSeconds
          /\ SinceStart >= 10 * TotalSeconds => countdown.remaining = 0
          /\ countdown.secs \in 0..59
          /\ countdown.mins * 60 + countdown.secs = countdown.remaining)
  /\ [][ (countdown # None /\ countdown' # None /\ countdown'.at >= countdown.at)
            => countdown'.remaining <= countdown.remaining ]_vars

\* C17 witness: the timer has run out, a fraction of a second past the end
\* of the time box
C17_Witness == /\ countdown # None
               /\ SinceStart > 10 * TotalSeconds
               /\ SinceStart % 10 # 0
               /\ countdown.remaining = 0

\* C18: "Redo verdict" or "Adjust the step" pressed while the correction
\* is empty after trimming calls no collaborator and leaves the mirror,
\* the action, the answers, the cursor and the open panel as they are.
C18_Original ==
  [][ /\ (Pressed("Redo verdict")' /\ correction' = <<>>) =>
            /\ calls' = <<>>
            /\ mirror' = mirror
            /\ action_one' = action_one
            /\ answers' = answers
            /\ step' = step
            /\ show_correction'
      /\ (Pressed("Adjust the step")' /\ action_correction' = <<>>) =>
            /\ calls' = <<>>
            /\ mirror' = mirror
            /\ action_one' = action_one
            /\ answers' = answers
            /\ step' = step
            /\ show_action_correction'
    ]_vars

\* the answer keys the collecting step k owns
Owned(k) == { StepKeys(k)[i] : i \in 1..Len(StepKeys(k)) }

\* C19, as written: an event handled at cursor k in 0..5 changes only the
\* answer key(s) step k owns; at cursor 6, 7 or 8 no event other than a
\* reset changes the answers.
C19_Original ==
  [][ /\ step \in 0..5 =>
            \A key \in Keys \ Owned(step) : answers'[key] = answers[key]
      /\ (step \in 6..8 /\ ~ResetPressed') => answers' = answers
    ]_vars

\* C19, amended: an event other than a reset handled at cursor k in 0..5
\* changes only the answer key(s) step k owns, also when the step is left
\* through Back or Next; at cursor 6, 7 or 8 no event other than a reset
\* changes the answers.
C19_AnswerFrame ==
  [][ /\ (step \in 0..5 /\ ~ResetPressed') =>
            \A key \in Keys \ Owned(step) : answers'[key] = answers[key]
      /\ (step \in 6..8 /\ ~ResetPressed') => answers' = answers
    ]_vars

\* C19 witness: a step was left through Back with its answer typed, and
\* the answers of the earlier steps are still there
C19_Witness == /\ step = 3
               /\ Pressed("Back")
               /\ answers["if_do"] # <<>>
               /\ Filled(0) /\ Filled(1) /\ Filled(2) /\ Filled(3)

====
